---------------------------- MODULE Spec2Model ----------------------------
(***************************************************************************)
(* A model of AmazonProductScraper (src/amazon_scraper.py): the retrying   *)
(* fetch _make_request, the record assembly of scrape_product with its     *)
(* field extractors, the page walk of search_products and the multi-URL    *)
(* loop of scrape_multiple_products.                                       *)
(*                                                                         *)
(* Texts (URLs, response bodies, element texts) are sequences of           *)
(* one-character strings, so that lower(), strip(), 'in' and the ASIN      *)
(* pattern are computed character by character as the code computes them.  *)
(* The results of the HTTP library and of the HTML parser (a response, the *)
(* element a selector finds) are the inputs of the model.                  *)
(***************************************************************************)
EXTENDS Integers, Sequences, FiniteSets, TLC

VARIABLES
    max_retries,   \* self.max_retries, as given to __init__
    calls,         \* number of public methods called so far on this scraper
    op,            \* the public method called last: "none", "search", "multi", "single"
    pc,            \* control point: "idle" (op has returned), "loop", "fetch", "fetched"
    url,           \* _make_request: the url argument
    attempt,       \* _make_request: the loop variable
    response,      \* _make_request: the value returned
    served,        \* _make_request: what session.get did on each attempt so far
    delays,        \* _make_request: the _delay calls made so far by this call
    last,          \* the scraper's last network event: "none", "get" or "delay"
    keyword,       \* search_products: the keyword argument
    pages,         \* search_products: the pages argument
    page,          \* search_products: the loop variable
    found,         \* search_products: the local product_urls
    walker_delays, \* search_products: the _delay calls of line 318 so far
    product_urls,  \* scrape_multiple_products: the argument
    i,             \* scrape_multiple_products: the loop variable (1-based)
    products,      \* scrape_multiple_products: the local products
    requested,     \* the urls op passed to _make_request, in order
    results,       \* what each of these _make_request calls returned, in order
    record,        \* the value the last scrape_product returned
    returned       \* the value the last public method returned

fetch_vars == <<url, attempt, response, served, delays>>
search_vars == <<keyword, pages, page, found, walker_delays>>
multi_vars == <<product_urls, i, products>>

vars == <<max_retries, calls, op, pc, last, requested, results, record, returned,
          fetch_vars, search_vars, multi_vars>>

----------------------------------------------------------------------------
(* Bounds of the model. *)

MaxRetriesBound == 2     \* max_retries ranges over -1 .. MaxRetriesBound
MaxPages == 2            \* pages ranges over 0 .. MaxPages
MaxUrls == 2             \* product_urls has at most MaxUrls entries
MaxCalls == 2            \* public methods called on one scraper
MaxUrlPieces == 4        \* pieces a generated URL is made of

----------------------------------------------------------------------------
(* Text: str.lower, 'in', str.strip, str.split. *)

UpperLetters == <<"A","B","C","D","E","F","G","H","I","J","K","L","M",
                  "N","O","P","Q","R","S","T","U","V","W","X","Y","Z">>
LowerLetters == <<"a","b","c","d","e","f","g","h","i","j","k","l","m",
                  "n","o","p","q","r","s","t","u","v","w","x","y","z">>
Digits == {"0","1","2","3","4","5","6","7","8","9"}
Whitespace == {" ", "\t", "\n"}

Range(s) == {s[k] : k \in DOMAIN s}

ToLower(c) ==
    IF \E k \in DOMAIN UpperLetters : UpperLetters[k] = c
    THEN LowerLetters[CHOOSE k \in DOMAIN UpperLetters : UpperLetters[k] = c]
    ELSE c

Lower(s) == [k \in DOMAIN s |-> ToLower(s[k])]

\* pat in s
Contains(s, pat) ==
    \E k \in 1 .. (Len(s) - Len(pat) + 1) : SubSeq(s, k, k + Len(pat) - 1) = pat

\* s.strip()
Strip(s) ==
    LET keep == {k \in DOMAIN s : s[k] \notin Whitespace}
    IN  IF keep = {} THEN <<>>
        ELSE SubSeq(s, CHOOSE a \in keep : \A b \in keep : a <= b,
                       CHOOSE a \in keep : \A b \in keep : a >= b)

\* s.split(sep)[0] for a one-character sep
SplitFirst(s, sep) ==
    LET hits == {k \in DOMAIN s : s[k] = sep}
    IN  IF hits = {} THEN s
        ELSE SubSeq(s, 1, (CHOOSE a \in hits : \A b \in hits : a <= b) - 1)

RECURSIVE Flatten(_)
Flatten(ss) == IF ss = <<>> THEN <<>> ELSE Head(ss) \o Flatten(Tail(ss))


----------------------------------------------------------------------------
(* Optional values: Python's None, and a value that is present. *)

None == [none |-> TRUE]
Some(v) == [some |-> v]

----------------------------------------------------------------------------
(* Responses.  A document is what a 200 response carries: its raw text     *)
(* (response.text), and what the parser finds in it: per CSS selector the  *)
(* first matching element (None, or the element's text nodes in order),    *)
(* the "hiRes" matches of the raw text, the src attributes of the landing  *)
(* images, the feature bullets, and the hrefs of the search results.       *)

robot == <<"r","o","b","o","t">>
captcha == <<"c","a","p","t","c","h","a">>

TitleSelectors == <<"#productTitle", ".product-title", "h1.a-size-large">>
PriceSelectors == <<".a-price .a-offscreen", ".a-price-whole", "#price_inside_buybox",
                    ".a-price.a-text-price.a-size-medium.apexPriceToPay .a-offscreen",
                    ".a-price-range .a-offscreen">>
RatingSelector == "span.a-icon-alt"
RatingCountSelectors == <<"#acrCustomerReviewText", ".a-size-base.a-color-base">>
AvailabilitySelectors == <<"#availability span", ".a-size-medium.a-color-success",
                           ".a-size-medium.a-color-price">>
DescriptionSelectors == <<"#productDescription p", "#aplus .aplus-p1",
                          ".a-section.a-spacing-medium">>

Selectors ==
    Range(TitleSelectors) \cup Range(PriceSelectors) \cup {RatingSelector}
    \cup Range(RatingCountSelectors) \cup Range(AvailabilitySelectors)
    \cup Range(DescriptionSelectors)

NoElements == [s \in Selectors |-> None]

\* an element with one text node
Element(text) == Some(<<text>>)

RECURSIVE Repeat(_, _)
Repeat(c, n) == IF n <= 0 THEN <<>> ELSE <<c>> \o Repeat(c, n - 1)

T_RobotCheck == <<"R","o","b","o","t"," ","C","h","e","c","k">>
T_EnterCaptcha == <<"E","n","t","e","r"," ","C","A","P","T","C","H","A">>
T_Html == <<"<","h","t","m","l",">","o","k">>
T_Mouse == <<" ","M","o","u","s","e"," ">>
T_Heading == <<"B","i","g"," ","M","o","u","s","e">>
T_Blank == <<" ","\n">>
T_Price == <<"$","1","9",".","9","9">>
T_NoCurrency == <<"1","9",".","9","9">>
T_Stars == <<"4",".","5"," ","o","u","t"," ","o","f"," ","5">>
T_NoStars == <<"s","t","a","r","s">>
T_Ratings == <<" ","1","2"," ","R","a","t","i","n","g","s">>
T_InStock == <<"I","n"," ","S","t","o","c","k"," ">>
T_Grip == <<"E","r","g","o","n","o","m","i","c"," ","g","r","i","p">>
T_Wheel == <<"S","i","l","e","n","t"," ","s","c","r","o","l","l"," ","w","h","e","e","l">>
T_Usb == <<"U","S","B">>
U_HiRes1 == <<"h","t","t","p",":","h","1">>
U_HiRes2 == <<"h","t","t","p",":","h","2">>
U_Landing == <<"h","t","t","p",":","l","1">>
U_Relative == <<"/","l","2",".","p","n","g">>
H_Rel == <<"/","d","p","/","B","0","8","N","5","W","R","W","N","W","?","x","=","1">>
H_Abs == <<"h","t","t","p","s",":","/","/","a",".","c","o","/","d","p","/","B","1","2","3","4","5","6","7","8","9">>

Document(text, sel, hiRes, landing, bullets, links) ==
    [text |-> text, sel |-> sel, hiRes |-> hiRes, landing |-> landing,
     bullets |-> bullets, links |-> links]

\* an anti-bot page, in the capitalisation Amazon serves it
RobotCheckDoc == Document(T_RobotCheck, NoElements, <<>>, <<>>, <<>>, <<>>)
CaptchaDoc == Document(T_EnterCaptcha, NoElements, <<>>, <<>>, <<>>, <<>>)
\* a page on which no selector matches anything
BareDoc == Document(T_Html, NoElements, <<>>, <<>>, <<>>, <<>>)
\* a product page
ProductDoc ==
    Document(T_Html,
             ("#productTitle" :> Element(T_Mouse)) @@
             (".a-price .a-offscreen" :> Element(T_Price)) @@
             ("#acrCustomerReviewText" :> Element(T_Ratings)) @@ NoElements,
             <<U_HiRes1, U_HiRes1>>, <<>>, <<<<T_Grip>>, <<T_Usb>>, <<T_Wheel>>>>, <<>>)
\* a search result page: one relative link with a query, one anchor without href,
\* one absolute link
SearchDoc ==
    Document(T_Html, NoElements, <<>>, <<>>, <<>>, <<Some(H_Rel), None, Some(H_Abs)>>)

FetchDocs == {RobotCheckDoc, CaptchaDoc, BareDoc, ProductDoc, SearchDoc}

\* what one session.get can do: raise a RequestException, or return a response
TransportError == [exception |-> "RequestException"]
Response(status_code, doc) == [status_code |-> status_code, doc |-> doc]
Statuses == {200, 404, 503}
Outcomes ==
    {TransportError} \cup {Response(200, d) : d \in FetchDocs}
    \cup {Response(st, BareDoc) : st \in Statuses \ {200}}

IsResponse(r) == "status_code" \in DOMAIN r

----------------------------------------------------------------------------
(* _make_request *)

IsBlockedCaseSensitive(text) ==
    Contains(text, robot) \/ Contains(text, captcha)

IsBlockedAny(text) == TRUE

\* line 103
IsBlocked(text) ==
    Contains(Lower(text), robot) \/ Contains(Lower(text), captcha)

InRangeInclusive(a) == a <= max_retries

\* line 97: attempt is in range(self.max_retries)
InRange(a) == a < max_retries

\* line 116
DelayBeforeRetry(a) == a < max_retries - 1

\* line 101
IsOk(r) == r.status_code = 200

\* entering _make_request(u)
EnterMakeRequest(u) ==
    /\ url' = u
    /\ attempt' = 0
    /\ served' = <<>>
    /\ delays' = 0
    /\ response' = None
    /\ requested' = Append(requested, u)
    /\ pc' = "fetch"

\* lines 97-117: one iteration of the loop of _make_request, session.get doing r
Attempt(r) ==
    /\ pc = "fetch"
    /\ InRange(attempt)
    /\ served' = Append(served, r)
    /\ IF IsResponse(r) /\ IsOk(r)
       THEN IF IsBlocked(r.doc.text)
            THEN /\ delays' = delays + 1
                 /\ last' = "delay"
                 /\ attempt' = attempt + 1
                 /\ UNCHANGED <<pc, response>>
            ELSE /\ last' = "get"
                 /\ response' = r
                 /\ pc' = "fetched"
                 /\ UNCHANGED <<attempt, delays>>
       ELSE /\ IF DelayBeforeRetry(attempt)
               THEN delays' = delays + 1 /\ last' = "delay"
               ELSE delays' = delays /\ last' = "get"
            /\ attempt' = attempt + 1
            /\ UNCHANGED <<pc, response>>
    /\ UNCHANGED <<max_retries, calls, op, url, requested, results, record, returned,
                   search_vars, multi_vars>>

\* lines 119-120: the loop is over
Exhausted ==
    /\ pc = "fetch"
    /\ ~InRange(attempt)
    /\ response' = None
    /\ pc' = "fetched"
    /\ UNCHANGED <<max_retries, calls, op, last, url, attempt, served, delays,
                   requested, results, record, returned, search_vars, multi_vars>>

----------------------------------------------------------------------------
(* The field extractors. *)

rating_word == <<"r","a","t","i","n","g">>
http == <<"h","t","t","p">>
DpSlash == <<"/","d","p","/">>
Timestamp == <<"2","0","2","5","-","0","1","-","0","1","T","0","0",":","0","0">>

AsinLen == 10
MinFeatureLen == 10
MaxAvailabilityLen == 100
MinDescriptionLen == 50

Least(S) == CHOOSE a \in S : \A b \in S : a <= b

\* element.get_text(): the text nodes joined
GetText(element) == Flatten(element.some)

\* element.get_text(strip=True): the stripped text nodes joined
GetTextStrip(element) ==
    Flatten([k \in DOMAIN element.some |-> Strip(element.some[k])])

\* soup.select_one(selector)
SelectOne(doc, selector) == doc.sel[selector]

\* lines 164-176
ExtractTitle(doc) ==
    LET hits == {k \in DOMAIN TitleSelectors :
                    SelectOne(doc, TitleSelectors[k]) # None}
    IN  IF hits = {} THEN None
        ELSE Some(GetTextStrip(SelectOne(doc, TitleSelectors[Least(hits)])))

\* lines 178-194
ExtractPrice(doc) ==
    LET hits == {k \in DOMAIN PriceSelectors :
                    /\ SelectOne(doc, PriceSelectors[k]) # None
                    /\ LET price_text == GetTextStrip(SelectOne(doc, PriceSelectors[k]))
                       IN  price_text # <<>> /\ "$" \in Range(price_text)}
    IN  IF hits = {} THEN None
        ELSE Some(GetTextStrip(SelectOne(doc, PriceSelectors[Least(hits)])))

\* the last index of the run of digits of s that starts at a
DigitRunEnd(s, a) ==
    CHOOSE b \in a .. Len(s) :
        /\ \A j \in a .. b : s[j] \in Digits
        /\ b = Len(s) \/ s[b + 1] \notin Digits

\* re.search(r'(\d+\.?\d*)', s).group(1), or None
RatingMatch(s) ==
    LET ds == {k \in DOMAIN s : s[k] \in Digits}
    IN  IF ds = {} THEN None
        ELSE LET a == Least(ds)
                 b == DigitRunEnd(s, a)
                 c == IF b < Len(s) /\ s[b + 1] = "."
                      THEN IF b + 2 <= Len(s) /\ s[b + 2] \in Digits
                           THEN DigitRunEnd(s, b + 2)
                           ELSE b + 1
                      ELSE b
             IN  Some(SubSeq(s, a, c))

\* lines 196-204
ExtractRating(doc) ==
    IF SelectOne(doc, RatingSelector) # None
    THEN RatingMatch(GetText(SelectOne(doc, RatingSelector)))
    ELSE None

MentionsRatingAny(element) == TRUE

\* line 215
MentionsRating(element) == Contains(Lower(GetText(element)), rating_word)

\* lines 206-217
ExtractRatingCount(doc) ==
    LET hits == {k \in DOMAIN RatingCountSelectors :
                    /\ SelectOne(doc, RatingCountSelectors[k]) # None
                    /\ MentionsRating(SelectOne(doc, RatingCountSelectors[k]))}
    IN  IF hits = {} THEN None
        ELSE Some(GetTextStrip(SelectOne(doc, RatingCountSelectors[Least(hits)])))

\* lines 219-233
ExtractAvailability(doc) ==
    LET hits == {k \in DOMAIN AvailabilitySelectors :
                    /\ SelectOne(doc, AvailabilitySelectors[k]) # None
                    /\ LET availability ==
                               GetTextStrip(SelectOne(doc, AvailabilitySelectors[k]))
                       IN  availability # <<>> /\ Len(availability) < MaxAvailabilityLen}
    IN  IF hits = {} THEN None
        ELSE Some(GetTextStrip(SelectOne(doc, AvailabilitySelectors[Least(hits)])))

\* lines 235-253; list(set(images)) is the images in no particular order, each
\* once: the set of them
ExtractImages(doc) ==
    LET Usable(src) == src # None /\ src.some # <<>> /\ Contains(src.some, http)
        images == IF doc.hiRes # <<>>
                  THEN doc.hiRes
                  ELSE [k \in DOMAIN SelectSeq(doc.landing, Usable) |->
                            SelectSeq(doc.landing, Usable)[k].some]
    IN  Range(images)

\* line 263
AcceptFeature(feature_text) ==
    feature_text # <<>> /\ Len(feature_text) > MinFeatureLen

\* lines 255-266
ExtractFeatures(doc) ==
    SelectSeq([k \in DOMAIN doc.bullets |-> GetTextStrip(Some(doc.bullets[k]))],
              AcceptFeature)

\* lines 268-282
ExtractDescription(doc) ==
    LET hits == {k \in DOMAIN DescriptionSelectors :
                    /\ SelectOne(doc, DescriptionSelectors[k]) # None
                    /\ LET description ==
                               GetTextStrip(SelectOne(doc, DescriptionSelectors[k]))
                       IN  description # <<>> /\ Len(description) > MinDescriptionLen}
    IN  IF hits = {} THEN None
        ELSE Some(GetTextStrip(SelectOne(doc, DescriptionSelectors[Least(hits)])))

----------------------------------------------------------------------------
(* scrape_product *)

IsAsinCharAnyCase(c) ==
    c \in Range(UpperLetters) \cup Range(LowerLetters) \cup Digits

\* the class [A-Z0-9] of the pattern of line 141
IsAsinChar(c) == c \in Range(UpperLetters) \cup Digits

\* the positions at which r'/dp/([A-Z0-9]{10})' matches
AsinMatches(u) ==
    {k \in 1 .. (Len(u) - Len(DpSlash) - AsinLen + 1) :
        /\ SubSeq(u, k, k + Len(DpSlash) - 1) = DpSlash
        /\ \A j \in 1 .. AsinLen : IsAsinChar(u[k + Len(DpSlash) - 1 + j])}

\* lines 141-142: re.search finds the leftmost match
ExtractAsin(u) ==
    IF AsinMatches(u) = {} THEN None
    ELSE LET k == Least(AsinMatches(u))
         IN  Some(SubSeq(u, k + Len(DpSlash), k + Len(DpSlash) + AsinLen - 1))

Keys == {"asin", "url", "title", "price", "rating", "rating_count", "availability",
         "images", "features", "description", "scraped_at"}

\* lines 144-156
ProductData(u, doc) ==
    [asin |-> ExtractAsin(u),
     url |-> Some(u),
     title |-> ExtractTitle(doc),
     price |-> ExtractPrice(doc),
     rating |-> ExtractRating(doc),
     rating_count |-> ExtractRatingCount(doc),
     availability |-> ExtractAvailability(doc),
     images |-> Some(ExtractImages(doc)),
     features |-> Some(ExtractFeatures(doc)),
     description |-> ExtractDescription(doc),
     scraped_at |-> Some(Timestamp)]

\* line 159
Kept(v) == v # None

\* line 159: the dict without the keys that Kept rejects
RemoveNone(data) ==
    [k \in {key \in DOMAIN data : Kept(data[key])} |-> data[k].some]

\* lines 134-162: what scrape_product returns, given what _make_request returned
ScrapeProduct(u, resp) ==
    IF resp = None THEN None ELSE RemoveNone(ProductData(u, resp.doc))

TruthyTitle(product_data) ==
    product_data # None /\ "title" \in DOMAIN product_data

\* line 339: a dict is true when it is not empty
Truthy(product_data) == product_data # None /\ DOMAIN product_data # {}

----------------------------------------------------------------------------
(* search_products *)

BaseUrl == <<"h","t","t","p","s",":","/","/","w","w","w",".","a","m","a","z","o","n",".","c","o","m">>
SearchPath == <<"/","s","?","k","=">>
PageParam == <<"&","p","a","g","e","=">>
SchemeMark == <<":","/","/">>
K_Mouse == <<"m","o","u","s","e">>
Keywords == {K_Mouse}
DigitChars == <<"0","1","2","3","4","5","6","7","8","9">>

\* str(n), n >= 0
RECURSIVE IntText(_)
IntText(n) ==
    IF n < 10 THEN <<DigitChars[n + 1]>>
    ELSE IntText(n \div 10) \o <<DigitChars[(n % 10) + 1]>>

\* line 300
SearchUrl(k, p) == BaseUrl \o SearchPath \o k \o PageParam \o IntText(p)

\* urljoin(base, rel) for a base without a path
UrlJoin(base, rel) ==
    IF rel = <<>> THEN base
    ELSE IF Contains(rel, SchemeMark) THEN rel
    ELSE IF Head(rel) = "/" THEN base \o rel
    ELSE base \o <<"/">> \o rel

\* lines 311-315
ResultUrls(doc) ==
    LET HasHref(href) == href # None /\ href.some # <<>>
        hrefs == SelectSeq(doc.links, HasHref)
    IN  [k \in DOMAIN hrefs |-> UrlJoin(BaseUrl, SplitFirst(hrefs[k].some, "?"))]

\* line 303: 'if not response: continue' leaves the iteration before line 318
SkipsPage(resp) == resp = None

\* a public method starts with no locals of an earlier call
FreshSearch ==
    /\ keyword' = <<>>
    /\ pages' = 0
    /\ page' = 1
    /\ found' = <<>>
    /\ walker_delays' = 0

FreshMulti ==
    /\ product_urls' = <<>>
    /\ i' = 1
    /\ products' = <<>>

FreshResults ==
    /\ record' = None
    /\ returned' = <<>>

FreshFetch ==
    /\ url' = <<>>
    /\ attempt' = 0
    /\ served' = <<>>
    /\ delays' = 0
    /\ response' = None

\* search_products(k, n) is called
SearchCall(k, n) ==
    /\ pc = "idle"
    /\ calls < MaxCalls
    /\ calls' = calls + 1
    /\ op' = "search"
    /\ pc' = "loop"
    /\ keyword' = k
    /\ pages' = n
    /\ page' = 1
    /\ found' = <<>>
    /\ walker_delays' = 0
    /\ FreshMulti
    /\ FreshResults
    /\ requested' = <<>>
    /\ results' = <<>>
    /\ FreshFetch
    /\ UNCHANGED <<max_retries, last>>

\* lines 299-301: the next page is requested
SearchFetch ==
    /\ op = "search"
    /\ pc = "loop"
    /\ page <= pages
    /\ EnterMakeRequest(SearchUrl(keyword, page))
    /\ UNCHANGED <<max_retries, calls, op, last, results, record, returned,
                   search_vars, multi_vars>>

\* lines 303-318: the rest of the iteration, once _make_request has returned
SearchPage ==
    /\ op = "search"
    /\ pc = "fetched"
    /\ IF SkipsPage(response)
       THEN UNCHANGED <<found, walker_delays, last>>
       ELSE /\ found' = found \o ResultUrls(response.doc)
            /\ walker_delays' = walker_delays + 1
            /\ last' = "delay"
    /\ page' = page + 1
    /\ pc' = "loop"
    /\ results' = Append(results, response)
    /\ FreshFetch
    /\ UNCHANGED <<max_retries, calls, op, requested, record, returned, keyword, pages,
                   multi_vars>>

\* lines 320-321
SearchReturn ==
    /\ op = "search"
    /\ pc = "loop"
    /\ page > pages
    /\ returned' = found
    /\ pc' = "idle"
    /\ UNCHANGED <<max_retries, calls, op, last, requested, results, record, fetch_vars,
                   search_vars, multi_vars>>

----------------------------------------------------------------------------
(* scrape_multiple_products and scrape_product *)

P_Host == <<"h","t","t","p","s",":","/","/","a","m","a","z","o","n",".","c","o","m">>
P_Upper == <<"B","0","8","N","5","W","R","W","N","W">>
P_Lower == <<"b","0","8","n","5","w","r","w","n","w">>
P_Short == <<"B","0","8","N","5">>
P_Ref == <<"/","r","e","f">>
P_Mixed == <<"B","0","8","n","5","W","R","W","N","W">>

U_Upper == P_Host \o DpSlash \o P_Upper
U_Lower == P_Host \o DpSlash \o P_Lower \o P_Ref
ProductUrls == {U_Upper, U_Lower}

UrlLists == UNION {[1 .. n -> ProductUrls] : n \in 0 .. MaxUrls}

\* line 343
DelayBeforeNext(n, us) == n < Len(us)

\* scrape_multiple_products(us) is called
MultiCall(us) ==
    /\ pc = "idle"
    /\ calls < MaxCalls
    /\ calls' = calls + 1
    /\ op' = "multi"
    /\ pc' = "loop"
    /\ product_urls' = us
    /\ i' = 1
    /\ products' = <<>>
    /\ FreshSearch
    /\ FreshResults
    /\ requested' = <<>>
    /\ results' = <<>>
    /\ FreshFetch
    /\ UNCHANGED <<max_retries, last>>

\* lines 335-338 and 132-134: scrape_product of the next url asks for the page
MultiFetch ==
    /\ op = "multi"
    /\ pc = "loop"
    /\ i <= Len(product_urls)
    /\ EnterMakeRequest(product_urls[i])
    /\ UNCHANGED <<max_retries, calls, op, last, results, record, returned,
                   search_vars, multi_vars>>

\* lines 135-162 and 339-344: scrape_product returns and the iteration ends
MultiItem ==
    /\ op = "multi"
    /\ pc = "fetched"
    /\ LET product_data == ScrapeProduct(url, response)
       IN  /\ record' = product_data
           /\ products' = IF Truthy(product_data)
                          THEN Append(products, product_data)
                          ELSE products
    /\ last' = IF DelayBeforeNext(i, product_urls) THEN "delay" ELSE last
    /\ i' = i + 1
    /\ pc' = "loop"
    /\ results' = Append(results, response)
    /\ FreshFetch
    /\ UNCHANGED <<max_retries, calls, op, requested, returned, product_urls,
                   search_vars>>

\* line 346
MultiReturn ==
    /\ op = "multi"
    /\ pc = "loop"
    /\ i > Len(product_urls)
    /\ returned' = products
    /\ pc' = "idle"
    /\ UNCHANGED <<max_retries, calls, op, last, requested, results, record, fetch_vars,
                   search_vars, multi_vars>>

\* scrape_product(u) is called, lines 132-134
SingleCall(u) ==
    /\ pc = "idle"
    /\ calls < MaxCalls
    /\ calls' = calls + 1
    /\ op' = "single"
    /\ FreshSearch
    /\ FreshMulti
    /\ FreshResults
    /\ url' = u
    /\ attempt' = 0
    /\ served' = <<>>
    /\ delays' = 0
    /\ response' = None
    /\ requested' = <<u>>
    /\ results' = <<>>
    /\ pc' = "fetch"
    /\ UNCHANGED <<max_retries, last>>

\* lines 135-162
SingleReturn ==
    /\ op = "single"
    /\ pc = "fetched"
    /\ record' = ScrapeProduct(url, response)
    /\ results' = Append(results, response)
    /\ pc' = "idle"
    /\ UNCHANGED <<max_retries, calls, op, last, requested, returned, fetch_vars,
                   search_vars, multi_vars>>

----------------------------------------------------------------------------
(* The scraper: __init__ with any max_retries, then public methods called  *)
(* one after another, each running to its return.                          *)

\* lines 48-69: __init__ stores max_retries as given
Accepted(n) == TRUE

Init ==
    /\ max_retries \in {n \in -1 .. MaxRetriesBound : Accepted(n)}
    /\ calls = 0
    /\ op = "none"
    /\ pc = "idle"
    /\ last = "none"
    /\ url = <<>>
    /\ attempt = 0
    /\ response = None
    /\ served = <<>>
    /\ delays = 0
    /\ keyword = <<>>
    /\ pages = 0
    /\ page = 1
    /\ found = <<>>
    /\ walker_delays = 0
    /\ product_urls = <<>>
    /\ i = 1
    /\ products = <<>>
    /\ requested = <<>>
    /\ results = <<>>
    /\ record = None
    /\ returned = <<>>

Next ==
    \/ \E k \in Keywords, n \in 0 .. MaxPages : SearchCall(k, n)
    \/ SearchFetch
    \/ SearchPage
    \/ SearchReturn
    \/ \E us \in UrlLists : MultiCall(us)
    \/ MultiFetch
    \/ MultiItem
    \/ MultiReturn
    \/ \E u \in ProductUrls : SingleCall(u)
    \/ SingleReturn
    \/ \E r \in Outcomes : Attempt(r)
    \/ Exhausted

Spec == Init /\ [][Next]_vars

----------------------------------------------------------------------------
(* scrape_product as a function of its url and of the page it was served:  *)
(* the scraper is started where _make_request has just returned a clean    *)
(* response to scrape_product, for urls put together from pieces and for   *)
(* pages on which the selectors find every combination of elements.        *)

DefaultMaxRetries == 3

T_Subtitle == <<"M","o","u","s","e",","," ","b","l","a","c","k">>
T_GlobalRatings == <<"5"," ","g","l","o","b","a","l"," ","r","a","t","i","n","g","s">>
T_Twelve == <<"1","2"," ">>
T_RatingsWord == <<"r","a","t","i","n","g","s">>
T_Short == <<"N","i","c","e",".">>
T_OneRat == <<"1"," ","r","a","t">>
T_Ings == <<"i","n","g","s">>
T_RatSpace == <<"r","a","t"," ">>

UrlPieces == {P_Host, DpSlash, P_Upper, P_Lower, P_Mixed, P_Short}

\* session.get answers only a url with a scheme and a host: every url starts with one
GeneratedUrls ==
    {P_Host \o Flatten(ps) :
        ps \in UNION {[1 .. n -> UrlPieces] : n \in 0 .. MaxUrlPieces}}

TitleTexts == <<T_Mouse, T_Subtitle, T_Heading>>
TitleElements(k) == {None, Element(T_Blank), Element(TitleTexts[k])}
TitleParts ==
    {(TitleSelectors[1] :> e1) @@ (TitleSelectors[2] :> e2) @@ (TitleSelectors[3] :> e3) :
        e1 \in TitleElements(1), e2 \in TitleElements(2), e3 \in TitleElements(3)}

RatingCountParts ==
    {(RatingCountSelectors[1] :> e1) @@ (RatingCountSelectors[2] :> e2) :
        e1 \in {None, Element(T_InStock), Element(T_Ratings), Some(<<T_Twelve, T_RatingsWord>>),
                Some(<<T_OneRat, T_Ings>>), Some(<<T_RatSpace, T_Ings>>)},
        e2 \in {None, Element(T_InStock), Element(T_GlobalRatings)}}

\* price, rating, availability and description: nothing found; everything found and
\* accepted; the first candidate rejected and a later one accepted; everything
\* found rejected
OtherParts ==
    {<<>>,
     (PriceSelectors[1] :> Element(T_Price)) @@ (RatingSelector :> Element(T_Stars)) @@
     (AvailabilitySelectors[1] :> Element(T_InStock)) @@
     (DescriptionSelectors[1] :> Element(Repeat("d", MinDescriptionLen + 1))),
     (PriceSelectors[1] :> Element(T_NoCurrency)) @@ (PriceSelectors[2] :> Element(T_Price)) @@
     (RatingSelector :> Element(T_NoStars)) @@
     (AvailabilitySelectors[1] :> Element(Repeat("a", MaxAvailabilityLen))) @@
     (AvailabilitySelectors[2] :> Element(T_InStock)) @@
     (DescriptionSelectors[1] :> Element(T_Short)) @@
     (DescriptionSelectors[3] :> Element(Repeat("d", MinDescriptionLen + 1))),
     (PriceSelectors[1] :> Element(T_NoCurrency)) @@ (RatingSelector :> Element(T_NoStars)) @@
     (AvailabilitySelectors[1] :> Element(T_Blank)) @@
     (DescriptionSelectors[1] :> Element(Repeat("d", MinDescriptionLen)))}

HiResParts == {<<>>, <<U_HiRes1, U_HiRes1>>, <<U_HiRes1, U_HiRes2>>}
LandingParts == {<<>>, <<None>>, <<Some(<<>>), Some(U_Relative)>>,
                 <<Some(U_Relative), Some(U_Landing)>>}
BulletParts == {<<>>, <<<<T_Usb>>, <<T_Blank>>>>, <<<<T_Grip>>, <<T_Usb>>, <<T_Wheel>>>>}

\* pages that differ in what the title and rating-count selectors find
SelectorDocs ==
    {Document(T_Html, t @@ c @@ o @@ NoElements, <<>>, <<>>, <<>>, <<>>) :
        t \in TitleParts, c \in RatingCountParts, o \in OtherParts}

\* pages that differ in their images and feature bullets
ListDocs ==
    {Document(T_Html, (TitleSelectors[1] :> t) @@ NoElements, h, l, b, <<>>) :
        t \in TitleElements(1), h \in HiResParts, l \in LandingParts, b \in BulletParts}

RecordInputs ==
    (GeneratedUrls \X {BareDoc, ProductDoc})
    \cup (ProductUrls \X (SelectorDocs \cup ListDocs))

InitRecord ==
    \E input \in RecordInputs :
        /\ max_retries = DefaultMaxRetries
        /\ calls = 1
        /\ op = "single"
        /\ pc = "fetched"
        /\ last = "get"
        /\ url = input[1]
        /\ attempt = 0
        /\ response = Response(200, input[2])
        /\ served = <<Response(200, input[2])>>
        /\ delays = 0
        /\ keyword = <<>>
        /\ pages = 0
        /\ page = 1
        /\ found = <<>>
        /\ walker_delays = 0
        /\ product_urls = <<>>
        /\ i = 1
        /\ products = <<>>
        /\ requested = <<input[1]>>
        /\ results = <<>>
        /\ record = None
        /\ returned = <<>>

NextRecord == SingleReturn

SpecRecord == InitRecord /\ [][NextRecord]_vars

----------------------------------------------------------------------------
(* Properties. *)

\* text holds "robot" or "captcha" in any capitalisation
HasBlockMarker(text) ==
    \E marker \in {robot, captcha} :
        \E k \in 0 .. (Len(text) - Len(marker)) :
            \A j \in DOMAIN marker : ToLower(text[k + j]) = marker[j]

\* a response with status 200 and no block marker
CleanOutcome(r) ==
    /\ "status_code" \in DOMAIN r
    /\ r.status_code = 200
    /\ ~HasBlockMarker(r.doc.text)

\* C1: _make_request returns a response only if it was served with status 200 and
\* its body holds no block marker in any capitalisation; a blocked 200 response is
\* never the returned value, on any attempt.
C1_OnlyCleanReturned ==
    response # None =>
        /\ \E k \in DOMAIN served : served[k] = response
        /\ response.status_code = 200
        /\ ~HasBlockMarker(response.doc.text)

C1_Witness ==
    /\ pc = "fetched"
    /\ Len(served) = 2
    /\ served[1] = Response(200, RobotCheckDoc)
    /\ response = served[2]
    /\ response # None

\* C2: when every attempt of a fetch fails (transport error, non-200 status, 503
\* included, or blocked 200), _make_request has issued one GET per attempt
\* 1..max_retries, never more, and returns None.
C2_ExhaustedAfterMaxRetries ==
    /\ Len(served) <= Cardinality(1 .. max_retries)
    /\ (pc = "fetched" /\ \A k \in DOMAIN served : ~CleanOutcome(served[k])) =>
            /\ Len(served) = Cardinality(1 .. max_retries)
            /\ response = None

C2_Witness ==
    /\ pc = "fetched"
    /\ response = None
    /\ Len(served) = 2
    /\ served[1] = Response(503, BareDoc)
    /\ served[2] = Response(200, CaptchaDoc)

\* C3: when the first clean 200 response of a fetch arrives on attempt k,
\* 1 <= k <= max_retries, _make_request returns that response after exactly k GETs
\* (k - 1 retries) and issues no further request for the fetch.
C3_FirstCleanReturned ==
    \A k \in DOMAIN served :
        CleanOutcome(served[k]) =>
            /\ pc # "fetch"
            /\ k = Len(served)
            /\ k <= max_retries
            /\ attempt = k - 1
            /\ response = served[k]

C3_Witness ==
    /\ pc = "fetched"
    /\ Len(served) = 2
    /\ served[1] = Response(503, BareDoc)
    /\ CleanOutcome(served[2])
    /\ response = served[2]
    /\ delays = 1

\* C4: within a run of search_products or scrape_multiple_products, every GET
\* after the run's first is issued with a _delay since the GET before it: between
\* retries, between search pages (also after a page whose fetch failed), between
\* product urls.
C4_DelayBetweenRequests ==
    (/\ op \in {"search", "multi"}
     /\ pc = "fetch"
     /\ attempt < max_retries
     /\ ~(Len(requested) = 1 /\ served = <<>>)) => last = "delay"

TextKeys == {"asin", "url", "title", "price", "rating", "rating_count", "availability",
             "description", "scraped_at"}

\* C5: a record returned by scrape_product holds no key whose value is an empty
\* string, an empty image collection or an empty feature sequence.
C5_NoEmptyField ==
    record # None =>
        /\ \A k \in DOMAIN record \cap TextKeys : record[k] # <<>>
        /\ "images" \in DOMAIN record => record.images # {}
        /\ "features" \in DOMAIN record => record.features # <<>>

\* the n-th smallest element of a set of numbers
NthOf(S, n) == CHOOSE k \in S : Cardinality({j \in S : j < k}) = n - 1

\* C6: scrape_multiple_products attempts every url in input order, whatever the
\* fetches do, and returns exactly one record for each url whose fetch succeeded,
\* in input order, and none for a url whose fetch failed.
C6_PerUrlIsolation ==
    op = "multi" =>
        /\ \A k \in DOMAIN requested :
                k <= Len(product_urls) /\ requested[k] = product_urls[k]
        /\ pc = "idle" =>
                LET ok == {k \in DOMAIN results : results[k] # None}
                IN  /\ requested = product_urls
                    /\ Len(results) = Len(product_urls)
                    /\ Len(returned) = Cardinality(ok)
                    /\ \A n \in DOMAIN returned :
                            /\ returned[n].url = product_urls[NthOf(ok, n)]
                            /\ returned[n] =
                                 ScrapeProduct(product_urls[NthOf(ok, n)],
                                               results[NthOf(ok, n)])

C6_Witness ==
    /\ op = "multi"
    /\ pc = "idle"
    /\ Len(product_urls) = 2
    /\ results[1] = None
    /\ results[2] = Response(200, BareDoc)
    /\ Len(returned) = 1

\* C7: a scraper with max_retries <= 0 cannot be constructed, so no fetch runs
\* with a non-positive attempt budget.
C7_NonPositiveRetriesRejected ==
    pc \in {"fetch", "fetched"} => max_retries > 0

AlnumChars == Range(UpperLetters) \cup Range(LowerLetters) \cup Digits
UpperAlnumChars == Range(UpperLetters) \cup Digits

\* u holds '/dp/' at k, followed by AsinLen characters of the class
SegmentAt(u, k, class) ==
    /\ k + Len(DpSlash) + AsinLen - 1 <= Len(u)
    /\ \A j \in DOMAIN DpSlash : u[k + j - 1] = DpSlash[j]
    /\ \A j \in 1 .. AsinLen : u[k + Len(DpSlash) - 1 + j] \in class

\* the record's asin is the token of the leftmost segment of the class, and is
\* absent when the url has no such segment
AsinIsLeftmostSegment(class) ==
    (op = "single" /\ pc = "idle" /\ record # None) =>
        /\ \A k \in DOMAIN url :
              (SegmentAt(url, k, class) /\ \A j \in 1 .. (k - 1) : ~SegmentAt(url, j, class))
              => /\ "asin" \in DOMAIN record
                 /\ record.asin = SubSeq(url, k + Len(DpSlash), k + Len(DpSlash) + AsinLen - 1)
        /\ (\A k \in DOMAIN url : ~SegmentAt(url, k, class)) => "asin" \notin DOMAIN record

\* C8, as claimed: for a url with '/dp/' followed by 10 alphanumeric characters the
\* record's asin is exactly those characters; for a url with no such segment the
\* asin is absent.
C8_AlnumSegmentIsAsin == AsinIsLeftmostSegment(AlnumChars)

\* C8, amended: for a url with '/dp/' followed by 10 characters that are each an
\* upper-case letter A-Z or a digit, the record's asin is exactly those characters
\* of the leftmost such segment; for a url with no such segment the asin is absent.
C8_UpperSegmentIsAsin == AsinIsLeftmostSegment(UpperAlnumChars)

C8_Witness ==
    /\ op = "single"
    /\ pc = "idle"
    /\ url = P_Host \o DpSlash \o P_Lower \o DpSlash \o P_Upper
    /\ record # None
    /\ "asin" \in DOMAIN record
    /\ record.asin = P_Upper

\* C9: a fetch that issued n >= 1 requests made exactly n - 1 delays, one between
\* each two attempts and none after the last, whatever the attempts did.
C9_DelaysBetweenAttemptsOnly ==
    (pc = "fetched" /\ Len(served) >= 1) => delays = Len(served) - 1

\* C10: search_products requests pages 1..pages in order, a failed page does not
\* end the walk, and the delay of the walk itself is made exactly once per page,
\* whether the page's fetch succeeded or failed.
C10_WalkerDelayOncePerPage ==
    (op = "search" /\ pc = "idle" /\ max_retries >= 1) =>
        /\ requested = [p \in 1 .. Len(requested) |-> SearchUrl(keyword, p)]
        /\ Len(requested) = pages
        /\ walker_delays = pages

\* the page scrape_product has just assembled its record from
ScrapedDoc == response.doc

\* the trimmed text of the element the k-th title selector finds, <<>> when it
\* finds none
TitleTextOf(doc, k) ==
    IF doc.sel[TitleSelectors[k]] = None THEN <<>>
    ELSE Flatten([n \in DOMAIN doc.sel[TitleSelectors[k]].some |->
                      Strip(doc.sel[TitleSelectors[k]].some[n])])

\* C11: the title is the trimmed text of the first title selector, in priority
\* order, whose element has non-empty trimmed text: an element with empty text is
\* passed over for the next selector, and the title is absent (never an empty
\* string) when no selector yields non-empty text.
C11_FirstNonEmptyTitle ==
    (op = "single" /\ pc = "idle" /\ record # None) =>
        LET yielding == {k \in DOMAIN TitleSelectors : TitleTextOf(ScrapedDoc, k) # <<>>}
        IN  IF yielding = {}
            THEN "title" \notin DOMAIN record
            ELSE /\ "title" \in DOMAIN record
                 /\ \E k \in yielding :
                        /\ \A j \in yielding : k <= j
                        /\ record.title = TitleTextOf(ScrapedDoc, k)

\* text holds "rating" in any capitalisation
HasRatingWord(text) ==
    \E k \in 0 .. (Len(text) - Len(rating_word)) :
        \A j \in DOMAIN rating_word : ToLower(text[k + j]) = rating_word[j]

\* the k-th rating-count selector finds an element whose text mentions "rating"
RatingCandidatePasses(doc, k) ==
    /\ doc.sel[RatingCountSelectors[k]] # None
    /\ HasRatingWord(Flatten(doc.sel[RatingCountSelectors[k]].some))

\* C12: rating_count is taken from the first of the two selectors (named
\* review-count element, then base-color span) whose element's text mentions
\* "rating" in any capitalisation; a candidate that does not mention it is rejected
\* and the next selector is tried; the field is absent when no candidate passes,
\* and a value that is present always contains "rating" case-insensitively.
C12_RatingCountMentionsRating ==
    (op = "single" /\ pc = "idle" /\ record # None) =>
        LET passing == {k \in DOMAIN RatingCountSelectors :
                            RatingCandidatePasses(ScrapedDoc, k)}
        IN  IF passing = {}
            THEN "rating_count" \notin DOMAIN record
            ELSE /\ "rating_count" \in DOMAIN record
                 /\ HasRatingWord(record.rating_count)
                 /\ \E k \in passing :
                        /\ \A j \in passing : k <= j
                        /\ record.rating_count =
                             Flatten([n \in DOMAIN ScrapedDoc.sel[RatingCountSelectors[k]].some |->
                                 Strip(ScrapedDoc.sel[RatingCountSelectors[k]].some[n])])

\* the named element is matched but does not mention "rating"; the fallback does
C12_Witness ==
    /\ op = "single"
    /\ pc = "idle"
    /\ ScrapedDoc.sel[RatingCountSelectors[1]] = Element(T_InStock)
    /\ ScrapedDoc.sel[RatingCountSelectors[2]] = Element(T_GlobalRatings)
    /\ record # None
    /\ "rating_count" \in DOMAIN record
    /\ record.rating_count = T_GlobalRatings

============================================================================
